---- MODULE Spec2Model ----
(***************************************************************************)
(* Model of DataQualityProfiler (data-quality-profiler/                    *)
(* data_quality_profiler.py): the per-column analysis, the IQR outlier     *)
(* detector, the quality score, issue detection and report aggregation     *)
(* (Spec: the calls on one profiler object), and the steps of one run of   *)
(* main, from load_data to the output files (MainSpec).                    *)
(*                                                                         *)
(* Numbers.  The code computes in binary floating point and rounds with    *)
(* round(x, d).  The model computes in exact scaled integers:              *)
(*   percentages (null_pct, outliers_pct)   in hundredths of a percent,    *)
(*   scores (quality_score, overall score)  in tenths of a point,          *)
(*   quartiles in quarters, IQR bounds in eighths of a cell unit.          *)
(* round(x, d) is round-half-to-even on the exact value.  NaN (the mean of *)
(* an empty boolean mask) is the value NaN below; every comparison with it *)
(* is false and every arithmetic result that uses it is NaN.  A float that  *)
(* may be NaN or None is stored as Num(x), NaN or NoValue.  Where the      *)
(* exact value lies halfway between two roundings and has no exact binary  *)
(* representation, the float of the code may round to either neighbour;    *)
(* the properties below that speak of a rounded value (IsRounded) accept   *)
(* both.                                                                   *)
(***************************************************************************)
EXTENDS Integers, Sequences, FiniteSets, TLC

VARIABLES
    file,            \* the file on disk: its name and the table it decodes to
    df,              \* self.df: None or the loaded table
    clock,           \* the wall clock, in seconds
    quality_report,  \* self.quality_report: {} or the last report built
    prev_report,     \* self.quality_report as it was before the last call
    outcome,         \* how the last call of generate_report ended
    load_error,      \* the exception the last call of load_data raised
    pc,              \* main: the step that comes next
    args,            \* main: the options --output and --json
    report,          \* main: the local variable `report`
    written,         \* main: the text written to each output path
    console,         \* main: what was printed, in order
    exit_code        \* main: <<>> while running, then the exit status

profiler_vars == <<df, quality_report, prev_report, outcome, load_error>>
main_vars == <<pc, args, report, written, console, exit_code>>
vars == <<file, clock, profiler_vars, main_vars>>

-----------------------------------------------------------------------------
(* Bounds of the model *)

MaxCells == 4       \* cells (rows * columns) of the exhaustively enumerated tables
MaxCols == 2        \* columns of a table
MaxClock == 1       \* seconds the clock may advance

-----------------------------------------------------------------------------
(* Values *)

None == [none |-> TRUE]          \* self.df before load_data
EmptyDict == [k \in {} |-> 0]    \* {}

\* floats that may be NaN or None
Num(x) == <<x>>
NaN == <<0, 0>>
NoValue == <<>>
IsNum(f) == Len(f) = 1

\* A cell is <<>> (null: NaN / None / NaT) or <<v>>; v is a number in a
\* numeric column, the index of a text in an object column and a day in a
\* datetime column.
Null == <<>>
Val(v) == <<v>>
IsNa(cell) == cell = <<>>

NumericValues == {1, 9}
ObjectValues == {1, 2, 3}
DatetimeValues == {1}
ColumnNames == <<"c1", "c2", "c3", "c4">>

Min(a, b) == IF a <= b THEN a ELSE b
Max(a, b) == IF a >= b THEN a ELSE b

\* round-half-to-even of num/den (den > 0), as an integer
RoundHalfEven(num, den) ==
    LET q == num \div den
        r == num % den
    IN  IF 2 * r < den THEN q
        ELSE IF 2 * r > den THEN q + 1
        ELSE IF q % 2 = 0 THEN q ELSE q + 1

\* Body applied to the value of v, v being evaluated once
Eval(v, Body(_)) == CHOOSE r \in {Body(x) : x \in {v}} : TRUE

RECURSIVE SumSeq(_)
SumSeq(s) == IF s = <<>> THEN 0 ELSE Head(s) + SumSeq(Tail(s))

-----------------------------------------------------------------------------
(* pandas Series operations used by the profiler *)

Len_(series) == Len(series.cells)

IsNumericDtype(dtype) == dtype \in {"int64", "float64"}

\* series.isna().sum()
NullCount(series) ==
    Cardinality({i \in DOMAIN series.cells : IsNa(series.cells[i])})

\* series.isna().all()
AllNa(series) == \A i \in DOMAIN series.cells : IsNa(series.cells[i])

\* series.isna().mean() * 100 rounded to 2 decimals, in hundredths; the mean
\* of an empty mask is NaN
NullPct(series) ==
    IF Len_(series) = 0 THEN NaN
    ELSE Num(RoundHalfEven(NullCount(series) * 10000, Len_(series)))

\* mutant of NUnique: the null is one more value (nunique(dropna=False))
NUniqueWithNulls(series) ==
    Cardinality({series.cells[i] : i \in DOMAIN series.cells})

\* series.nunique(): distinct values, NaN/None dropped
NUnique(series) ==
    Cardinality({series.cells[i][1] :
                    i \in {j \in DOMAIN series.cells : ~IsNa(series.cells[j])}})

\* mutant of DuplicateCount: the repeats among the non-null values only
DuplicateCountNonNull(series) ==
    (Len_(series) - NullCount(series)) - NUnique(series)

\* len(series) - series.nunique()
DuplicateCount(series) == Len_(series) - NUnique(series)

\* series.dropna() as a sequence of values, in row order
DropNa(series) ==
    LET keep == SelectSeq(series.cells, LAMBDA c : ~IsNa(c))
    IN  [i \in DOMAIN keep |-> keep[i][1]]

\* the p-th smallest element (p in 1..Len(vals)) of a sequence of numbers
Kth(vals, p) ==
    LET S == {vals[i] : i \in DOMAIN vals}
        AtMost(v) == Cardinality({i \in DOMAIN vals : vals[i] <= v})
        Below(v) == Cardinality({i \in DOMAIN vals : vals[i] < v})
    IN  CHOOSE v \in S : AtMost(v) >= p /\ Below(v) < p

\* series.quantile(qn / 4), times 4: linear interpolation between the order
\* statistics around position (n - 1) * qn / 4 of the non-null values; NaN
\* when there is no non-null value
Quantile4(series, qn) ==
    LET vals == DropNa(series)
        n == Len(vals)
        h == (n - 1) * qn
        lo == h \div 4
        frac == h % 4
        xlo == Kth(vals, lo + 1)
        xhi == Kth(vals, Min(lo + 2, n))
    IN  IF n = 0 THEN NaN ELSE Num(4 * xlo + frac * (xhi - xlo))

-----------------------------------------------------------------------------
(* detect_outliers *)

Q1x4(series) == Quantile4(series, 1)
Q3x4(series) == Quantile4(series, 3)

\* IQR = Q3 - Q1, in quarters
IQRx4(series) ==
    IF IsNum(Q1x4(series)) THEN Num(Q3x4(series)[1] - Q1x4(series)[1]) ELSE NaN

\* lower_bound = Q1 - 1.5 * IQR and upper_bound = Q3 + 1.5 * IQR, in eighths
LowerBound8(series) ==
    IF IsNum(Q1x4(series))
    THEN Num(2 * Q1x4(series)[1] - 3 * IQRx4(series)[1]) ELSE NaN
UpperBound8(series) ==
    IF IsNum(Q1x4(series))
    THEN Num(2 * Q3x4(series)[1] + 3 * IQRx4(series)[1]) ELSE NaN

\* mutant of IsOutlier: the bounds themselves count as outliers
IsOutlierInclusive(cell, lower_bound, upper_bound) ==
    /\ ~IsNa(cell)
    /\ IsNum(lower_bound)
    /\ IsNum(upper_bound)
    /\ \/ 8 * cell[1] <= lower_bound[1]
       \/ 8 * cell[1] >= upper_bound[1]

\* (series < lower_bound) | (series > upper_bound) for one cell; a
\* comparison with NaN (a null cell, or a NaN bound) is false
IsOutlier(cell, lower_bound, upper_bound) ==
    /\ ~IsNa(cell)
    /\ IsNum(lower_bound)
    /\ IsNum(upper_bound)
    /\ \/ 8 * cell[1] < lower_bound[1]
       \/ 8 * cell[1] > upper_bound[1]

\* the rows flagged, in row order (rows are numbered from 1 here, from 0 in
\* the RangeIndex of the code)
DetectOutliers(series) ==
    IF ~IsNumericDtype(series.dtype) THEN <<>>
    ELSE Eval(<<LowerBound8(series), UpperBound8(series)>>,
              LAMBDA bounds :
                SelectSeq([i \in DOMAIN series.cells |-> i],
                          LAMBDA i : IsOutlier(series.cells[i], bounds[1], bounds[2])))

-----------------------------------------------------------------------------
(* Format validation.  An object cell <<v>> stands for a text: an address  *)
(* "user<v>@example.com" when v % 3 = 1, the word "bad<v>" when v % 3 = 2  *)
(* and the date "2024-01-<v>" when v % 3 = 0.                              *)

\* the regular expression of validate_email matches the addresses only
ValidateEmail(cell) == IsNa(cell) \/ cell[1] % 3 = 1

\* pd.to_datetime parses the dates only
ValidateDate(cell) == IsNa(cell) \/ cell[1] % 3 = 0

\* series.dropna().head(100)
SampleSize == 100
Sample(series) ==
    LET kept == SelectSeq(series.cells, LAMBDA c : ~IsNa(c))
    IN  SubSeq(kept, 1, Min(Len(kept), SampleSize))

CountIf(seq, Test(_)) == Cardinality({i \in DOMAIN seq : Test(seq[i])})

\* the keys the "Format validations" block adds to the analysis
FormatHints(series) ==
    LET sample == Sample(series)
        email_count == CountIf(sample, ValidateEmail)
        date_count == CountIf(sample, ValidateDate)
        email == IF 2 * email_count > Len(sample)
                 THEN [likely_email |-> TRUE] ELSE EmptyDict
        date == IF 2 * date_count > Len(sample)
                THEN [likely_date |-> TRUE] ELSE EmptyDict
    IN  IF series.dtype = "object" /\ Len(sample) > 0
        THEN email @@ date ELSE EmptyDict

-----------------------------------------------------------------------------
(* Numeric statistics: min and max as they are, mean, median and std       *)
(* rounded to 2 decimals (in hundredths); None when every cell is null.    *)

RECURSIVE FloorSqrt(_, _, _)
\* the largest r in lo..hi with r * r <= n (lo * lo <= n < (hi + 1)^2)
FloorSqrt(n, lo, hi) ==
    IF lo >= hi THEN lo
    ELSE LET mid == (lo + hi + 1) \div 2
         IN  IF mid * mid <= n THEN FloorSqrt(n, mid, hi)
             ELSE FloorSqrt(n, lo, mid - 1)

RECURSIVE GCD(_, _)
GCD(a, b) == IF b = 0 THEN a ELSE GCD(b, a % b)

SeriesMin(series) ==
    IF AllNa(series) THEN NoValue ELSE Num(Kth(DropNa(series), 1))
SeriesMax(series) ==
    IF AllNa(series) THEN NoValue
    ELSE Num(Kth(DropNa(series), Len(DropNa(series))))
SeriesMean(series) ==
    IF AllNa(series) THEN NoValue
    ELSE Num(RoundHalfEven(100 * SumSeq(DropNa(series)), Len(DropNa(series))))
SeriesMedian(series) ==
    LET vals == DropNa(series)
        n == Len(vals)
    IN  IF AllNa(series) THEN NoValue
        ELSE IF n % 2 = 1 THEN Num(100 * Kth(vals, (n + 1) \div 2))
        ELSE Num(50 * (Kth(vals, n \div 2) + Kth(vals, n \div 2 + 1)))
\* mutant of SeriesStd: no deviation is reported for a single value
SeriesStdNoneForOne(series) ==
    LET n == Len(DropNa(series))
    IN  IF n <= 1 THEN NoValue
        ELSE Num(RoundHalfEven(
                    100 * FloorSqrt((n * SumSeq([i \in 1..n |-> DropNa(series)[i]
                                                             * DropNa(series)[i]])
                                     - SumSeq(DropNa(series)) * SumSeq(DropNa(series)))
                                    \div (n * (n - 1)), 0, 46340), 1))

\* the sample standard deviation (ddof = 1): NaN for a single value
SeriesStd(series) ==
    LET vals == DropNa(series)
        n == Len(vals)
        sum == SumSeq(vals)
        sumsq == SumSeq([i \in DOMAIN vals |-> vals[i] * vals[i]])
        \* variance = varnum / varden
        varnum == n * sumsq - sum * sum
        varden == n * (n - 1)
        g1 == GCD(varnum, varden)
        g2 == GCD(40000, varden \div g1)
        \* 4 * 100^2 * variance, rounded down
        x == ((40000 \div g2) * (varnum \div g1)) \div ((varden \div g1) \div g2)
        s == FloorSqrt(x, 0, Min(x, 46340))
    IN  IF AllNa(series) THEN NoValue
        ELSE IF n = 1 THEN NaN
        ELSE Num((s + 1) \div 2)


-----------------------------------------------------------------------------
(* analyze_column *)

Raise(exception) == [raised |-> exception]
Raised(result) == "raised" \in DOMAIN result

\* mutant of DuplicatePenalty: the 20 points are added
DuplicateBonus(duplicate_count, total) ==
    IF 2 * duplicate_count > total THEN 0 - 20000 ELSE 0

\* mutant of DuplicatePenalty: half of the rows already counts as many
DuplicatePenaltyAtHalf(duplicate_count, total) ==
    IF 2 * duplicate_count >= total THEN 20000 ELSE 0

\* mutant of OutlierPenalty: the outliers cost nothing
OutlierPenaltyNone(is_numeric, outliers_pct) == 0

\* mutant of NullPenalty: a point for each percent of nulls
NullPenaltyFull(null_pct) == 10 * null_pct

\* the "Quality score (0-100)" block, in thousandths before rounding and in
\* tenths after it: 100, minus null_pct * 0.5, minus 20 and minus 10
DuplicatePenalty(duplicate_count, total) ==
    IF 2 * duplicate_count > total THEN 20000 ELSE 0
OutlierPenalty(is_numeric, outliers_pct) ==
    IF is_numeric /\ outliers_pct > 1000 THEN 10000 ELSE 0
NullPenalty(null_pct) == 5 * null_pct

\* max(0, round(quality_score, 1)); round(nan) is nan and max(0, nan) is 0
ClampScore(quality_score) ==
    IF IsNum(quality_score)
    THEN Max(0, RoundHalfEven(quality_score[1], 100))
    ELSE 0

QualityScore(null_pct, duplicate_count, total, is_numeric, outliers_pct) ==
    LET penalties == DuplicatePenalty(duplicate_count, total)
                     + OutlierPenalty(is_numeric, outliers_pct)
        quality_score ==
            IF IsNum(null_pct)
            THEN Num(100000 - NullPenalty(null_pct[1]) - penalties)
            ELSE NaN
    IN  ClampScore(quality_score)

\* mutant of NumericStats: the outliers are a share of the non-null rows
NumericStatsNonNull(series) ==
    [min |-> SeriesMin(series),
     max |-> SeriesMax(series),
     mean |-> SeriesMean(series),
     median |-> SeriesMedian(series),
     std |-> SeriesStd(series),
     outliers_count |-> Len(DetectOutliers(series)),
     outliers_pct |->
        IF AllNa(series) THEN 0
        ELSE RoundHalfEven(Len(DetectOutliers(series)) * 10000,
                           Len(DropNa(series)))]

\* analysis.update({...}) of the numeric branch; len(series) = 0 divides by
\* zero in outliers_pct
NumericStats(series) ==
    [min |-> SeriesMin(series),
     max |-> SeriesMax(series),
     mean |-> SeriesMean(series),
     median |-> SeriesMedian(series),
     std |-> SeriesStd(series),
     outliers_count |-> Len(DetectOutliers(series)),
     outliers_pct |->
        RoundHalfEven(Len(DetectOutliers(series)) * 10000, Len_(series))]

\* the analysis before the score is added to it
Analysis(series) ==
    [name |-> series.name,
     dtype |-> series.dtype,
     total |-> Len_(series),
     null_count |-> NullCount(series),
     null_pct |-> NullPct(series),
     unique_count |-> NUnique(series),
     duplicate_count |-> DuplicateCount(series),
     is_numeric |-> IsNumericDtype(series.dtype)]
    @@ (IF IsNumericDtype(series.dtype) THEN NumericStats(series) ELSE EmptyDict)
    @@ FormatHints(series)

\* analysis.get("outliers_pct", 0)
GetOutliersPct(analysis) ==
    IF "outliers_pct" \in DOMAIN analysis THEN analysis.outliers_pct ELSE 0

WithQualityScore(analysis) ==
    analysis @@
    [quality_score |->
        QualityScore(analysis.null_pct, analysis.duplicate_count, analysis.total,
                     analysis.is_numeric, GetOutliersPct(analysis))]

AnalyzeColumn(series) ==
    IF IsNumericDtype(series.dtype) /\ Len_(series) = 0
    THEN Raise("ZeroDivisionError")
    ELSE Eval(Analysis(series), WithQualityScore)

-----------------------------------------------------------------------------
(* generate_report *)

IssueNull(a) ==
    [type |-> "high_null_percentage", column |-> a.name, severity |-> "warning",
     message |-> <<a.name, ": ", a.null_pct, "% null values">>]
IssueDuplicates(a) ==
    [type |-> "high_duplicates", column |-> a.name, severity |-> "warning",
     message |-> <<a.name, ": ", a.duplicate_count, " duplicates detected">>]
IssueOutliers(a) ==
    [type |-> "high_outliers", column |-> a.name, severity |-> "info",
     message |-> <<a.name, ": ", a.outliers_pct, "% outliers">>]

\* mutants of the three tests: a threshold that is met counts, and the
\* outlier threshold of the score (10) is used for the issue
HighNullsAtThreshold(a) == IsNum(a.null_pct) /\ a.null_pct[1] >= 2000
HighDuplicatesAtHalf(a) == 2 * a.duplicate_count >= a.total
HighOutliersAboveTen(a) == GetOutliersPct(a) > 1000

\* the three tests of the "Detect issues" loop
HighNulls(a) == IsNum(a.null_pct) /\ a.null_pct[1] > 2000
HighDuplicates(a) == 2 * a.duplicate_count > a.total
HighOutliers(a) == GetOutliersPct(a) > 1500

\* mutant of ColumnIssues: the duplicate test comes first
ColumnIssuesDuplicatesFirst(a) ==
    (IF HighDuplicates(a) THEN <<IssueDuplicates(a)>> ELSE <<>>)
    \o (IF HighNulls(a) THEN <<IssueNull(a)>> ELSE <<>>)
    \o (IF HighOutliers(a) THEN <<IssueOutliers(a)>> ELSE <<>>)

\* mutant of ColumnIssues: the duplicate warning is appended once more
ColumnIssuesTwice(a) ==
    (IF HighNulls(a) THEN <<IssueNull(a)>> ELSE <<>>)
    \o (IF HighDuplicates(a) THEN <<IssueDuplicates(a)>> ELSE <<>>)
    \o (IF HighOutliers(a) THEN <<IssueOutliers(a)>> ELSE <<>>)
    \o (IF HighDuplicates(a) THEN <<IssueDuplicates(a)>> ELSE <<>>)

\* the issues one pass of the loop body appends for one column analysis
ColumnIssues(a) ==
    (IF HighNulls(a) THEN <<IssueNull(a)>> ELSE <<>>)
    \o (IF HighDuplicates(a) THEN <<IssueDuplicates(a)>> ELSE <<>>)
    \o (IF HighOutliers(a) THEN <<IssueOutliers(a)>> ELSE <<>>)

\* mutant of NoIssues: the list of the previous report is appended to
CarriedIssues(previous) ==
    IF previous = EmptyDict THEN <<>> ELSE previous.issues

\* issues = []
NoIssues(previous) == <<>>

RECURSIVE DetectIssues(_, _)
\* for col_analysis in column_analyses: ..., appending to `issues`
DetectIssues(column_analyses, issues) ==
    IF column_analyses = <<>> THEN issues
    ELSE DetectIssues(Tail(column_analyses),
                      issues \o ColumnIssues(Head(column_analyses)))

\* mutant of OverallScore: the sum is not divided
OverallScoreSum(column_analyses) ==
    SumSeq([i \in DOMAIN column_analyses |-> column_analyses[i].quality_score])

\* round(sum(quality_score) / len(column_analyses), 1), in tenths
OverallScore(column_analyses) ==
    RoundHalfEven(
        SumSeq([i \in DOMAIN column_analyses |-> column_analyses[i].quality_score]),
        Len(column_analyses))

\* mutant of Summary: total_issues counts the columns that have an issue
SummaryIssueColumns(column_analyses, issues) ==
    [columns_with_nulls |->
        Cardinality({i \in DOMAIN column_analyses : column_analyses[i].null_count > 0}),
     columns_with_duplicates |->
        Cardinality({i \in DOMAIN column_analyses : column_analyses[i].duplicate_count > 0}),
     numeric_columns |->
        Cardinality({i \in DOMAIN column_analyses : column_analyses[i].is_numeric}),
     total_issues |-> Cardinality({issues[k].column : k \in DOMAIN issues})]

Summary(column_analyses, issues) ==
    [columns_with_nulls |->
        Cardinality({i \in DOMAIN column_analyses : column_analyses[i].null_count > 0}),
     columns_with_duplicates |->
        Cardinality({i \in DOMAIN column_analyses : column_analyses[i].duplicate_count > 0}),
     numeric_columns |->
        Cardinality({i \in DOMAIN column_analyses : column_analyses[i].is_numeric}),
     total_issues |-> Len(issues)]

\* datetime.now().strftime(...)
GeneratedAt(now) == now

\* mutant of AnalyzeColumns: the columns are taken last to first
AnalyzeColumnsReversed(table) ==
    [i \in DOMAIN table.columns |->
        AnalyzeColumn(table.columns[Len(table.columns) + 1 - i])]

\* column_analyses = [self.analyze_column(col) for col in self.df.columns]
AnalyzeColumns(table) ==
    [i \in DOMAIN table.columns |-> AnalyzeColumn(table.columns[i])]

\* the rest of generate_report, from the column analyses: the exception of
\* the first column whose analysis raised, the division by len([]) = 0, or
\* the report
Aggregate(analyses, table, filename, now, previous) ==
    LET failed == {i \in DOMAIN analyses : Raised(analyses[i])}
        first == CHOOSE i \in failed : \A j \in failed : i <= j
    IN  IF failed # {} THEN analyses[first]
        ELSE IF Len(analyses) = 0 THEN Raise("ZeroDivisionError")
        ELSE Eval(DetectIssues(analyses, NoIssues(previous)),
                  LAMBDA issues :
                    [file |-> filename,
                     generated_at |-> GeneratedAt(now),
                     total_rows |-> table.rows,
                     total_columns |-> Len(table.columns),
                     overall_quality_score |-> OverallScore(analyses),
                     columns |-> analyses,
                     issues |-> issues,
                     summary |-> Summary(analyses, issues)])

\* What generate_report returns for a loaded table: the report, or the
\* exception that leaves it
BuildReport(table, filename, now, previous) ==
    Eval(AnalyzeColumns(table),
         LAMBDA analyses : Aggregate(analyses, table, filename, now, previous))

-----------------------------------------------------------------------------
(* The tables a file may decode to *)

Dtypes == {"float64", "object", "datetime64[ns]"}
CellsOf(dtype) ==
    {Null} \cup {Val(v) : v \in CASE dtype = "float64" -> NumericValues
                                  [] dtype = "object" -> ObjectValues
                                  [] dtype = "datetime64[ns]" -> DatetimeValues}

\* every column of n rows over the small cell domains
SmallColumns(n) ==
    UNION {{[dtype |-> d, cells |-> c] : c \in [1..n -> CellsOf(d)]} : d \in Dtypes}

\* nulls null cells followed by the given values
Column(dtype, nulls, values) ==
    [dtype |-> dtype,
     cells |-> [i \in 1..nulls |-> Null] \o [i \in DOMAIN values |-> Val(values[i])]]

\* columns of 8 rows: the outlier example of the documentation and columns
\* on and around the thresholds of the score and of the issues
ExampleColumns ==
    { Column("float64", 0, <<1, 2, 3, 4, 5, 6, 7, 100>>),
      Column("float64", 0, <<1, 2, 3, 4, 5, 6, 7, 8>>),
      Column("float64", 2, <<0, 5, 5, 5, 5, 9>>),
      Column("float64", 3, <<1, 1, 1, 1, 100>>),
      Column("float64", 8, <<>>),
      Column("object", 0, <<1, 1, 1, 1, 2, 2, 2, 2>>),
      Column("object", 1, <<1, 2, 3, 4, 5, 6, 7>>),
      Column("object", 4, <<1, 4, 7, 10>>) }

\* text columns of 100 rows: nulls null cells then distinct values, and no
\* null with the values 1..unique repeated
NullsThenDistinct(nulls) ==
    Column("object", nulls, [i \in 1..(100 - nulls) |-> i])
Repeating(unique) ==
    Column("object", 0, [i \in 1..100 |-> ((i - 1) % unique) + 1])
HundredRowColumns ==
    {NullsThenDistinct(k) : k \in {20, 21, 25}}
    \cup {Repeating(u) : u \in {40, 49, 50, 51}}

\* text columns of 205 rows, longer than the sample of the format
\* validation: 5 nulls, then 100 texts of one kind, then 100 of another
\* (addresses are 1, 4, 7, ..., words 2, 5, 8, ..., dates 3, 6, 9, ...)
TwoHalves(first, second) ==
    Column("object", 5,
           [i \in 1..200 |-> IF i <= 100 THEN 3 * i + first ELSE 3 * i + second])
LongColumns == {TwoHalves(1, 2), TwoHalves(2, 1), TwoHalves(3, 2), TwoHalves(2, 3)}

\* a table: the columns, named by position
Named(columns) ==
    [i \in DOMAIN columns |->
        [name |-> ColumnNames[i], dtype |-> columns[i].dtype, cells |-> columns[i].cells]]
TablesOver(pool, rows, ncols) ==
    {[rows |-> rows, columns |-> Named(cs)] : cs \in [1..ncols -> pool]}

EmptyTable == [rows |-> 0, columns |-> <<>>]

Tables ==
    {EmptyTable}
    \cup UNION {UNION {TablesOver(SmallColumns(n), n, c) : n \in 0..(MaxCells \div c)} :
                    c \in 1..MaxCols}
    \cup UNION {TablesOver(ExampleColumns, 8, c) : c \in 1..MaxCols}
    \cup UNION {TablesOver(HundredRowColumns, 100, c) : c \in 1..MaxCols}
    \cup TablesOver(LongColumns, 205, 1)

FileNames == {"data.json", "data.JSON", "data.txt"}

\* self.filepath.suffix and str.lower() on the suffixes of FileNames
Suffix(name) ==
    CASE name = "data.json" -> ".json"
      [] name = "data.JSON" -> ".JSON"
      [] name = "data.txt" -> ".txt"
Lower(suffix) == IF suffix = ".JSON" THEN ".json" ELSE suffix

\* the files the profiler may be given: every table as data.json, the
\* one-column example tables under the other names, and a file that is not
\* there
Files ==
    {[name |-> "data.json", exists |-> TRUE, table |-> t] : t \in Tables}
    \cup {[name |-> f, exists |-> TRUE, table |-> t] :
              f \in FileNames, t \in TablesOver(ExampleColumns, 8, 1)}
    \cup {[name |-> f, exists |-> FALSE, table |-> EmptyTable] : f \in FileNames}

\* mutant of ReadFile: the file is read whatever its suffix
ReadFileAnySuffix(f) ==
    IF f.exists THEN f.table ELSE Raise("FileNotFoundError")

\* the body of load_data: the table, or the exception that leaves it
ReadFile(f) ==
    IF Lower(Suffix(f.name)) \notin {".csv", ".parquet", ".json"}
    THEN Raise("ValueError")
    ELSE IF f.exists THEN f.table ELSE Raise("FileNotFoundError")

-----------------------------------------------------------------------------
(* The profiler object *)

\* DataQualityProfiler(filepath); main has not been started
NoArgs == [output |-> <<>>, json_output |-> <<>>]
NoFiles == [path \in {} |-> 0]
NotStarted ==
    /\ pc = "start"
    /\ report = EmptyDict
    /\ written = NoFiles
    /\ console = <<>>
    /\ exit_code = <<>>
NewProfiler ==
    /\ df = None
    /\ quality_report = EmptyDict
    /\ prev_report = EmptyDict
    /\ outcome = "none"
    /\ load_error = "none"

Init ==
    /\ file \in Files
    /\ clock = 0
    /\ NewProfiler
    /\ args = NoArgs
    /\ NotStarted

\* the call self.load_data(): self.df is assigned when the reader returns
LoadDataCall ==
    \E result \in {ReadFile(file)} :
        IF Raised(result)
        THEN /\ load_error' = result.raised
             /\ df' = df
        ELSE /\ load_error' = "none"
             /\ df' = result

\* load_data
LoadData ==
    /\ LoadDataCall
    /\ UNCHANGED <<file, clock, quality_report, prev_report, outcome, main_vars>>

\* the call self.generate_report(): loads the table if there is none,
\* builds the report and stores it in self.quality_report, or leaves with
\* the exception
GenerateReportCall ==
    /\ IF df = None THEN LoadDataCall ELSE UNCHANGED <<df, load_error>>
    /\ IF df' = None
       THEN /\ outcome' = load_error'
            /\ UNCHANGED <<quality_report, prev_report>>
       ELSE \E result \in {BuildReport(df', file.name, clock, quality_report)} :
              IF Raised(result)
              THEN /\ outcome' = result.raised
                   /\ UNCHANGED <<quality_report, prev_report>>
              ELSE /\ outcome' = "returned"
                   /\ quality_report' = result
                   /\ prev_report' = quality_report

\* generate_report
GenerateReport ==
    /\ GenerateReportCall
    /\ UNCHANGED <<file, clock, main_vars>>

\* a second passes
Tick ==
    /\ clock < MaxClock
    /\ clock' = clock + 1
    /\ UNCHANGED <<file, profiler_vars, main_vars>>

Next == LoadData \/ GenerateReport \/ Tick

Spec == Init /\ [][Next]_vars

-----------------------------------------------------------------------------
(* main: one run of the command line program *)

OutputPaths == {<<>>, <<"report.html">>}
JsonPaths == {<<>>, <<"report.json">>}

\* the tables of the runs of main: no column, no row, one row, and the
\* example columns
MainTables ==
    {EmptyTable}
    \cup UNION {TablesOver(SmallColumns(0), 0, c)
                \cup TablesOver(SmallColumns(1), 1, c)
                \cup TablesOver(ExampleColumns, 8, c) : c \in 1..MaxCols}
MainFiles == {f \in Files : f.table \in MainTables}

\* template.render(report=...) and json.dumps(report, ...): the text holds
\* the report it was made from
RenderHtml(r) == [format |-> "html", of |-> r]
JsonDumps(r) == [format |-> "json", of |-> r]

\* path.write_text(text)
WriteText(files, path, text) ==
    [p \in DOMAIN files \cup {path} |-> IF p = path THEN text ELSE files[p]]

\* mutant of NeedsReport: the HTML report always starts from a new report
NeedsReportAlways(r) == TRUE

\* `if not self.quality_report` of generate_html_report
NeedsReport(r) == r = EmptyDict

MainInit ==
    /\ file \in MainFiles
    /\ clock = 0
    /\ NewProfiler
    /\ args \in {[output |-> o, json_output |-> j] : o \in OutputPaths, j \in JsonPaths}
    /\ NotStarted

\* the two except clauses: the message, then sys.exit(1)
Fail(exception) ==
    /\ console' = Append(console,
                         IF exception = "FileNotFoundError"
                         THEN "Error: File not found" ELSE "Error")
    /\ exit_code' = <<1>>
    /\ pc' = "exited"

\* profiler.load_data()
MainLoad ==
    /\ pc = "start"
    /\ LoadDataCall
    /\ IF load_error' # "none"
       THEN Fail(load_error')
       ELSE pc' = "loaded" /\ UNCHANGED <<console, exit_code>>
    /\ UNCHANGED <<file, clock, quality_report, prev_report, outcome,
                   args, report, written>>

\* report = profiler.generate_report()
MainGenerate ==
    /\ pc = "loaded"
    /\ GenerateReportCall
    /\ IF outcome' # "returned"
       THEN Fail(outcome') /\ UNCHANGED report
       ELSE /\ report' = quality_report'
            /\ pc' = "generated"
            /\ UNCHANGED <<console, exit_code>>
    /\ UNCHANGED <<file, clock, args, written>>

\* render_console_report(report)
MainRender ==
    /\ pc = "generated"
    /\ console' = Append(console, "Data Quality Report")
    /\ pc' = "rendered"
    /\ UNCHANGED <<file, clock, profiler_vars, args, report, written, exit_code>>

\* if output: profiler.generate_html_report(output), which builds a report
\* first when self.quality_report is empty
MainHtml ==
    /\ pc = "rendered"
    /\ IF args.output = <<>>
       THEN /\ pc' = "html_done"
            /\ UNCHANGED <<profiler_vars, written, console, exit_code>>
       ELSE /\ IF NeedsReport(quality_report)
               THEN GenerateReportCall
               ELSE UNCHANGED profiler_vars
            /\ IF NeedsReport(quality_report) /\ outcome' # "returned"
               THEN Fail(outcome') /\ UNCHANGED written
               ELSE /\ written' = WriteText(written, args.output[1],
                                            RenderHtml(quality_report'))
                    /\ console' = Append(console, "HTML report generated")
                    /\ pc' = "html_done"
                    /\ UNCHANGED exit_code
    /\ UNCHANGED <<file, clock, args, report>>

\* if json_output: json_output.write_text(json.dumps(report, ...)); then
\* main returns
MainJson ==
    /\ pc = "html_done"
    /\ IF args.json_output = <<>>
       THEN UNCHANGED <<written, console>>
       ELSE /\ written' = WriteText(written, args.json_output[1], JsonDumps(report))
            /\ console' = Append(console, "JSON report exported")
    /\ pc' = "exited"
    /\ exit_code' = <<0>>
    /\ UNCHANGED <<file, clock, profiler_vars, args, report>>

MainNext == MainLoad \/ MainGenerate \/ MainRender \/ MainHtml \/ MainJson \/ Tick

MainSpec == MainInit /\ [][MainNext]_vars

-----------------------------------------------------------------------------
(* Properties of the reports.  HasReport: generate_report has returned.    *)

HasReport == quality_report # EmptyDict
ReportColumns == IF HasReport THEN quality_report.columns ELSE <<>>
ReportIssues == IF HasReport THEN quality_report.issues ELSE <<>>
Abs(x) == IF x < 0 THEN 0 - x ELSE x

\* x (an integer number of units) is num/den rounded to the nearest unit,
\* whichever way a tie is broken
IsRounded(x, num, den) == 2 * Abs(x * den - num) <= den

\* the positions in the issue list of the issues of one type for one column
IssuesOf(type, name) ==
    {k \in DOMAIN ReportIssues :
        ReportIssues[k].type = type /\ ReportIssues[k].column = name}

\* C1: every column profile of a report, and every profile analyze_column
\* returns for a column of the loaded table, has a quality_score in [0, 100]
\* (scores are in tenths).
C1_ScoreInRange ==
    /\ \A i \in DOMAIN ReportColumns :
          /\ ReportColumns[i].quality_score >= 0
          /\ ReportColumns[i].quality_score <= 1000
    /\ df # None =>
          \A i \in DOMAIN df.columns :
              \A a \in {AnalyzeColumn(df.columns[i])} :
                  ~Raised(a) => a.quality_score >= 0 /\ a.quality_score <= 1000

\* a profile that lost more than half of the 100 points
C1_Witness ==
    \E i \in DOMAIN ReportColumns :
        /\ ReportColumns[i].quality_score > 0
        /\ ReportColumns[i].quality_score < 500

\* C2: for a column with rows, the score is 100 - 0.5 * null_pct, minus a
\* flat 20 when duplicate_count > total * 0.5, minus a flat 10 when the
\* column is numeric and outliers_pct > 10, each penalty independent of the
\* others, clamped to [0, 100] and rounded to 1 decimal; null_pct is the
\* percentage of null rows rounded to 2 decimals.
C2_Penalised(a) ==
    100000 - 5 * a.null_pct[1]
    - (IF 2 * a.duplicate_count > a.total THEN 20000 ELSE 0)
    - (IF a.is_numeric /\ GetOutliersPct(a) > 1000 THEN 10000 ELSE 0)
C2_ScoreFormula ==
    \A i \in DOMAIN ReportColumns :
        LET a == ReportColumns[i]
        IN  a.total > 0 =>
              /\ IsNum(a.null_pct)
              /\ IsRounded(a.null_pct[1], 10000 * a.null_count, a.total)
              /\ IsRounded(a.quality_score,
                           Max(0, Min(100000, C2_Penalised(a))), 100)

\* a column that takes the three penalties at once
C2_Witness ==
    \E i \in DOMAIN ReportColumns :
        LET a == ReportColumns[i]
        IN  /\ a.null_count > 0
            /\ 2 * a.duplicate_count > a.total
            /\ a.is_numeric /\ GetOutliersPct(a) > 1000
            /\ a.quality_score = 575

\* C3: the overall score of a report lies in [0, 100] and is the mean of the
\* quality scores of its column profiles, rounded to 1 decimal.
C3_OverallIsRoundedMean ==
    HasReport =>
        /\ quality_report.overall_quality_score >= 0
        /\ quality_report.overall_quality_score <= 1000
        /\ IsRounded(quality_report.overall_quality_score,
                     SumSeq([i \in DOMAIN ReportColumns |->
                                ReportColumns[i].quality_score]),
                     Len(ReportColumns))

\* two columns of different scores whose mean is not a multiple of 0.1
C3_Witness ==
    /\ Len(ReportColumns) = 2
    /\ ReportColumns[1].quality_score # ReportColumns[2].quality_score
    /\ (ReportColumns[1].quality_score + ReportColumns[2].quality_score) % 2 = 1

\* C4: generate_report on the table of 0 rows and 0 columns returns a report
\* with overall score 0, no issue and the four summary counters 0.
C4_EmptyTableReport ==
    (df = EmptyTable /\ outcome # "none") =>
        /\ outcome = "returned"
        /\ HasReport
        /\ quality_report.overall_quality_score = 0
        /\ quality_report.issues = <<>>
        /\ quality_report.summary =
              [columns_with_nulls |-> 0, columns_with_duplicates |-> 0,
               numeric_columns |-> 0, total_issues |-> 0]

\* C5 as stated: two runs of generate_report on the same table give reports
\* that are equal in every field.
C5_IdenticalReports ==
    (HasReport /\ prev_report # EmptyDict) => quality_report = prev_report

\* C5, amended: two runs of generate_report on the same table give reports
\* that are equal in every field except generated_at, the time of the run.
C5_IdenticalButTimestamp ==
    (HasReport /\ prev_report # EmptyDict) =>
        /\ DOMAIN quality_report = DOMAIN prev_report
        /\ \A k \in DOMAIN quality_report \ {"generated_at"} :
              quality_report[k] = prev_report[k]

\* two runs in different seconds, on a table with issues
C5_Witness ==
    /\ HasReport /\ prev_report # EmptyDict
    /\ quality_report.generated_at # prev_report.generated_at
    /\ quality_report.issues # <<>>

\* C6: for every column of a report there is exactly one high_null_percentage
\* issue, of severity warning, when its null_pct is > 20 and none otherwise;
\* 25 nulls in 100 rows give the issue and 20 nulls in 100 rows give none.
C6_NullIssues(a) == IssuesOf("high_null_percentage", a.name)
C6_HighNullIssue ==
    \A i \in DOMAIN ReportColumns :
        LET a == ReportColumns[i]
        IN  /\ Cardinality(C6_NullIssues(a)) =
                  IF IsNum(a.null_pct) /\ a.null_pct[1] > 2000 THEN 1 ELSE 0
            /\ \A k \in C6_NullIssues(a) : ReportIssues[k].severity = "warning"
            /\ (a.total = 100 /\ a.null_count = 25) => C6_NullIssues(a) # {}
            /\ (a.total = 100 /\ a.null_count = 20) => C6_NullIssues(a) = {}

\* a report on 100 rows with a column of 25 nulls and a column of 20 nulls
C6_Witness ==
    /\ HasReport /\ Len(ReportColumns) = 2
    /\ ReportColumns[1].total = 100
    /\ ReportColumns[1].null_count = 25 /\ ReportColumns[2].null_count = 20
    /\ Cardinality(C6_NullIssues(ReportColumns[1])) = 1
    /\ C6_NullIssues(ReportColumns[2]) = {}

\* C7: for every column of a report there is a high_duplicates issue, of
\* severity warning, iff duplicate_count > total * 0.5; a column of 100
\* non-null rows gets it with at most 40 distinct values and does not with 50
\* or 51.
C7_DuplicateIssues(a) == IssuesOf("high_duplicates", a.name)
C7_HighDuplicatesIssue ==
    \A i \in DOMAIN ReportColumns :
        LET a == ReportColumns[i]
        IN  /\ Cardinality(C7_DuplicateIssues(a)) =
                  IF 2 * a.duplicate_count > a.total THEN 1 ELSE 0
            /\ \A k \in C7_DuplicateIssues(a) : ReportIssues[k].severity = "warning"
            /\ (a.total = 100 /\ a.null_count = 0 /\ a.unique_count <= 40)
                  => C7_DuplicateIssues(a) # {}
            /\ (a.total = 100 /\ a.null_count = 0 /\ a.unique_count \in {50, 51})
                  => C7_DuplicateIssues(a) = {}

\* a report on 100 rows with a column of 40 and a column of 50 distinct values
C7_Witness ==
    /\ HasReport /\ Len(ReportColumns) = 2
    /\ ReportColumns[1].total = 100
    /\ ReportColumns[1].null_count = 0 /\ ReportColumns[2].null_count = 0
    /\ ReportColumns[1].unique_count = 40 /\ ReportColumns[2].unique_count = 50
    /\ Cardinality(C7_DuplicateIssues(ReportColumns[1])) = 1
    /\ C7_DuplicateIssues(ReportColumns[2]) = {}

\* C8: for every column of a report there is a high_outliers issue, of
\* severity info, iff the column is numeric and its outliers_pct is > 15; a
\* column that is not numeric has none.
C8_OutlierIssues(a) == IssuesOf("high_outliers", a.name)
C8_HighOutliersIssue ==
    \A i \in DOMAIN ReportColumns :
        LET a == ReportColumns[i]
        IN  /\ Cardinality(C8_OutlierIssues(a)) =
                  IF a.is_numeric /\ "outliers_pct" \in DOMAIN a
                     /\ a.outliers_pct > 1500
                  THEN 1 ELSE 0
            /\ \A k \in C8_OutlierIssues(a) : ReportIssues[k].severity = "info"
            /\ ~a.is_numeric => C8_OutlierIssues(a) = {}

\* a numeric column above 15% with the issue, beside a numeric column with
\* outliers between 10% and 15% without it
C8_Witness ==
    /\ HasReport /\ Len(ReportColumns) = 2
    /\ ReportColumns[1].is_numeric /\ ReportColumns[2].is_numeric
    /\ ReportColumns[1].outliers_pct > 1500
    /\ ReportColumns[2].outliers_pct > 1000 /\ ReportColumns[2].outliers_pct <= 1500
    /\ Cardinality(C8_OutlierIssues(ReportColumns[1])) = 1
    /\ C8_OutlierIssues(ReportColumns[2]) = {}

\* C9: the issues of a report are in column order and, for one column, in
\* the order high_null_percentage, high_duplicates, high_outliers.
C9_ColumnOf(issue) ==
    CHOOSE i \in DOMAIN ReportColumns : ReportColumns[i].name = issue.column
C9_RuleOf(issue) ==
    CASE issue.type = "high_null_percentage" -> 1
      [] issue.type = "high_duplicates" -> 2
      [] issue.type = "high_outliers" -> 3
C9_IssueOrder ==
    \A j, k \in DOMAIN ReportIssues :
        j < k =>
            \/ C9_ColumnOf(ReportIssues[j]) < C9_ColumnOf(ReportIssues[k])
            \/ /\ C9_ColumnOf(ReportIssues[j]) = C9_ColumnOf(ReportIssues[k])
               /\ C9_RuleOf(ReportIssues[j]) < C9_RuleOf(ReportIssues[k])

\* two columns with the three issues each
C9_Witness ==
    /\ Len(ReportIssues) = 6
    /\ ReportIssues[3].column = "c1" /\ ReportIssues[4].column = "c2"

\* C10: detect_outliers flags exactly the non-null rows whose value is
\* < Q1 - 1.5 * IQR or > Q3 + 1.5 * IQR, Q1 and Q3 being the quantiles 0.25
\* and 0.75 with linear interpolation (between two values a <= b they are
\* a + (b - a) / 4 and a + 3 * (b - a) / 4), and outliers_count counts them;
\* for 1, 2, 3, 4, 5, 6, 7, 100: Q1 = 2.75, Q3 = 6.25, IQR = 3.5 and the one
\* outlier is the value 100.
C10_Rule(series) ==
    {i \in DOMAIN series.cells :
        /\ ~IsNa(series.cells[i])
        /\ \/ 8 * series.cells[i][1]
                < 2 * Q1x4(series)[1] - 3 * (Q3x4(series)[1] - Q1x4(series)[1])
           \/ 8 * series.cells[i][1]
                > 2 * Q3x4(series)[1] + 3 * (Q3x4(series)[1] - Q1x4(series)[1])}
C10_Flagged(series) ==
    {DetectOutliers(series)[k] : k \in DOMAIN DetectOutliers(series)}
C10_Values(series) == {DropNa(series)[k] : k \in DOMAIN DropNa(series)}
C10_OutlierRule ==
    \A i \in DOMAIN ReportColumns :
        LET series == df.columns[i]
            values == DropNa(series)
        IN  (ReportColumns[i].is_numeric /\ Len(values) > 0) =>
              /\ C10_Flagged(series) = C10_Rule(series)
              /\ ReportColumns[i].outliers_count = Cardinality(C10_Rule(series))
              /\ Len(values) = 2 =>
                    /\ Q1x4(series)[1] = 3 * Min(values[1], values[2])
                                         + Max(values[1], values[2])
                    /\ Q3x4(series)[1] = Min(values[1], values[2])
                                         + 3 * Max(values[1], values[2])
              /\ values = <<1, 2, 3, 4, 5, 6, 7, 100>> =>
                    /\ Q1x4(series)[1] = 11
                    /\ Q3x4(series)[1] = 25
                    /\ IQRx4(series)[1] = 14
                    /\ DetectOutliers(series) = <<8>>
                    /\ ReportColumns[i].outliers_count = 1

\* the report on the column 1, 2, 3, 4, 5, 6, 7, 100
C10_Witness ==
    /\ HasReport /\ Len(ReportColumns) = 1
    /\ DropNa(df.columns[1]) = <<1, 2, 3, 4, 5, 6, 7, 100>>
    /\ ReportColumns[1].outliers_count = 1

\* the profile analyze_column gives for column i of the loaded table, once
\* generate_report has been called
Called == df # None /\ outcome # "none"
LoadedColumns == IF Called THEN df.columns ELSE <<>>

\* C11: the outlier set is empty in the degenerate cases: a numeric column
\* with fewer than 4 distinct values, or with IQR = 0, has no outlier (as
\* 1, 1, 1, 1, 100, where Q1 = Q3 = 1).
C11_DegenerateNoOutliers ==
    \A i \in DOMAIN ReportColumns :
        LET series == df.columns[i]
        IN  (/\ ReportColumns[i].is_numeric
             /\ \/ NUnique(series) < 4
                \/ IsNum(IQRx4(series)) /\ IQRx4(series)[1] = 0)
            => ReportColumns[i].outliers_count = 0

\* C12: nulls are not duplicates: duplicate_count counts the repeats among
\* the non-null values only, so it is the number of non-null rows minus the
\* number of distinct values (0 for distinct values plus nulls).
C12_NullsNotDuplicates ==
    \A i \in DOMAIN ReportColumns :
        LET a == ReportColumns[i]
        IN  a.duplicate_count = (a.total - a.null_count) - a.unique_count

\* C13: for a column with rows that are all null, analyze_column returns a
\* profile and its quality score is 0.
C13_AllNullScoresZero ==
    \A i \in DOMAIN LoadedColumns :
        (Len_(LoadedColumns[i]) > 0 /\ AllNa(LoadedColumns[i])) =>
            \A a \in {AnalyzeColumn(LoadedColumns[i])} :
                ~Raised(a) /\ a.quality_score = 0

\* C14: for a column without rows, numeric or not, analyze_column returns a
\* profile with null fraction 0, all counts 0 and quality score 0.
C14_EmptyColumnProfile ==
    \A i \in DOMAIN LoadedColumns :
        Len_(LoadedColumns[i]) = 0 =>
            \A a \in {AnalyzeColumn(LoadedColumns[i])} :
                /\ ~Raised(a)
                /\ a.null_pct = Num(0)
                /\ a.total = 0 /\ a.null_count = 0
                /\ a.unique_count = 0 /\ a.duplicate_count = 0
                /\ a.quality_score = 0

\* the texts of the first 100 non-null cells of a column that are addresses,
\* and those that are dates
C15_Sample(series) == SubSeq(DropNa(series), 1, Min(Len(DropNa(series)), 100))
C15_Emails(series) ==
    {k \in DOMAIN C15_Sample(series) : C15_Sample(series)[k] % 3 = 1}
C15_Dates(series) ==
    {k \in DOMAIN C15_Sample(series) : C15_Sample(series)[k] % 3 = 0}

\* C15: for a text column with a non-null value, likely_email (likely_date)
\* is set iff at least 50% of the sampled values match: 2 * matches >= size
\* of the sample (so 2 of 3 and 1 of 2 set it, 1 of 3 does not).
C15_TagAtHalf ==
    \A i \in DOMAIN ReportColumns :
        LET series == df.columns[i]
            size == Len(C15_Sample(series))
        IN  (series.dtype = "object" /\ size > 0) =>
              /\ "likely_email" \in DOMAIN ReportColumns[i]
                    <=> 2 * Cardinality(C15_Emails(series)) >= size
              /\ "likely_date" \in DOMAIN ReportColumns[i]
                    <=> 2 * Cardinality(C15_Dates(series)) >= size

\* C16: every column that is not numeric (text or datetime) is sniffed on
\* its first 100 non-null values: a tag is set when more than half of them
\* match (every value of a datetime column is a date and none an address),
\* and its profile has no numeric summary and no outlier field.
C16_DateMatches(series) ==
    IF series.dtype = "datetime64[ns]" THEN DOMAIN C15_Sample(series)
    ELSE C15_Dates(series)
C16_EmailMatches(series) ==
    IF series.dtype = "datetime64[ns]" THEN {} ELSE C15_Emails(series)
C16_NonNumericSniffed ==
    \A i \in DOMAIN ReportColumns :
        LET series == df.columns[i]
            a == ReportColumns[i]
            size == Len(C15_Sample(series))
        IN  ~a.is_numeric =>
              /\ "likely_email" \in DOMAIN a
                    <=> 2 * Cardinality(C16_EmailMatches(series)) > size
              /\ "likely_date" \in DOMAIN a
                    <=> 2 * Cardinality(C16_DateMatches(series)) > size
              /\ DOMAIN a \cap {"min", "max", "mean", "median", "std",
                                "outliers_count", "outliers_pct"} = {}

\* C17: when the analysis of a column fails, generate_report still returns a
\* report, with one profile per column.
C17_ColumnFailureContained ==
    (Called /\ \E i \in DOMAIN df.columns : Raised(AnalyzeColumn(df.columns[i])))
        => /\ outcome = "returned"
           /\ HasReport
           /\ Len(quality_report.columns) = Len(df.columns)

\* C18: a report has one profile per column of the table, in the order of
\* the columns (profile i is the profile of column i), total_columns is the
\* length of that list, and there are issues and a report only once every
\* column has its profile: every issue is about a profiled column, and a
\* run in which the analysis of a column fails stores no report.
C18_OneProfilePerColumn ==
    /\ HasReport =>
          /\ Len(quality_report.columns) = Len(df.columns)
          /\ quality_report.total_columns = Len(quality_report.columns)
          /\ \A i \in DOMAIN df.columns :
                /\ quality_report.columns[i].name = df.columns[i].name
                /\ quality_report.columns[i].dtype = df.columns[i].dtype
                /\ quality_report.columns[i].total = Len(df.columns[i].cells)
          /\ \A k \in DOMAIN quality_report.issues :
                \E i \in DOMAIN quality_report.columns :
                    quality_report.columns[i].name = quality_report.issues[k].column
    /\ (Called /\ \E i \in DOMAIN df.columns : Raised(AnalyzeColumn(df.columns[i])))
          => ~HasReport

\* a report on two columns of different types, the second with issues
C18_Witness ==
    /\ HasReport /\ Len(ReportColumns) = 2
    /\ ReportColumns[1].dtype = "object" /\ ReportColumns[2].dtype = "float64"
    /\ ReportColumns[1].name = "c1" /\ ReportColumns[2].name = "c2"
    /\ ReportIssues # <<>>
    /\ \A k \in DOMAIN ReportIssues : ReportIssues[k].column = "c2"

\* C19 is not settled: generate_report has no DataShapeError and no test of
\* the shapes, and no run makes the row count, the column count and the
\* profile list disagree (C18).

\* C20: the summary counters are exact: columns_with_nulls is the number of
\* columns with a null cell (profiles with null_count > 0),
\* columns_with_duplicates the number of profiles with duplicate_count > 0,
\* numeric_columns the number of numeric columns, total_issues the length of
\* the issue list.
C20_SummaryCounters ==
    HasReport =>
        /\ quality_report.summary.columns_with_nulls =
              Cardinality({i \in DOMAIN df.columns :
                             \E r \in DOMAIN df.columns[i].cells :
                                 IsNa(df.columns[i].cells[r])})
        /\ quality_report.summary.columns_with_nulls =
              Cardinality({i \in DOMAIN ReportColumns : ReportColumns[i].null_count > 0})
        /\ quality_report.summary.columns_with_duplicates =
              Cardinality({i \in DOMAIN ReportColumns :
                             ReportColumns[i].duplicate_count > 0})
        /\ quality_report.summary.numeric_columns =
              Cardinality({i \in DOMAIN df.columns :
                             df.columns[i].dtype \in {"int64", "float64"}})
        /\ quality_report.summary.numeric_columns =
              Cardinality({i \in DOMAIN ReportColumns : ReportColumns[i].is_numeric})
        /\ quality_report.summary.total_issues = Len(quality_report.issues)

\* two columns, one of them numeric, one of them with nulls and repeats
\* and with two issues, the other clean
C20_Witness ==
    /\ HasReport /\ Len(ReportColumns) = 2
    /\ quality_report.summary.columns_with_nulls = 1
    /\ quality_report.summary.columns_with_duplicates = 1
    /\ quality_report.summary.numeric_columns = 1
    /\ quality_report.summary.total_issues = 2
    /\ \E i \in DOMAIN ReportColumns :
          \A k \in DOMAIN ReportIssues : ReportIssues[k].column = ReportColumns[i].name

\* C22: unique_count is the number of distinct non-null values of the
\* column: it is at most total - null_count, a null adds nothing to it, and
\* it is 0 for an all-null column.
C22_UniqueNonNull ==
    HasReport =>
        \A i \in DOMAIN ReportColumns :
            LET a == ReportColumns[i]
                cells == df.columns[i].cells
            IN  /\ a.unique_count =
                      Cardinality({cells[r][1] : r \in {q \in DOMAIN cells : cells[q] # Null}})
                /\ a.unique_count <= a.total - a.null_count
                /\ a.null_count = Cardinality({r \in DOMAIN cells : cells[r] = Null})
                /\ (\A r \in DOMAIN cells : cells[r] = Null) => a.unique_count = 0

\* a column with a null and as many distinct values as it has non-null rows,
\* next to an all-null column
C22_Witness ==
    /\ HasReport /\ Len(ReportColumns) = 2
    /\ ReportColumns[1].null_count > 0
    /\ ReportColumns[1].unique_count > 0
    /\ ReportColumns[1].unique_count = ReportColumns[1].total - ReportColumns[1].null_count
    /\ ReportColumns[2].null_count = ReportColumns[2].total
    /\ ReportColumns[2].unique_count = 0

\* C23: in the profile of a numeric column min, max, mean, median and std are
\* None exactly when every value of the column is null; with a non-null
\* value min, max, mean and median are numbers (std is NaN for a single
\* value).
C23_Fields == {"min", "max", "mean", "median", "std"}
C23_NoneIffAllNull ==
    HasReport =>
        \A i \in DOMAIN ReportColumns :
            LET a == ReportColumns[i]
                cells == df.columns[i].cells
                allnull == \A r \in DOMAIN cells : cells[r] = Null
            IN  a.is_numeric =>
                  /\ C23_Fields \subseteq DOMAIN a
                  /\ \A f \in C23_Fields : (a[f] = NoValue) <=> allnull
                  /\ ~allnull =>
                        \A f \in {"min", "max", "mean", "median"} : IsNum(a[f])
                  /\ allnull <=> a.null_count = a.total

\* an all-null numeric column next to one with a null and a single value
C23_Witness ==
    /\ HasReport /\ Len(ReportColumns) = 2
    /\ ReportColumns[1].is_numeric /\ ReportColumns[2].is_numeric
    /\ ReportColumns[1].min = NoValue /\ ReportColumns[1].std = NoValue
    /\ ReportColumns[2].null_count = 1 /\ ReportColumns[2].unique_count = 1
    /\ ReportColumns[2].total = 2
    /\ IsNum(ReportColumns[2].min) /\ ReportColumns[2].std = NaN

\* C24: the profile of a numeric column stores the number of rows
\* detect_outliers returns and, as outliers_pct, that same number divided by
\* the length of the column, null rows included (in percent, 2 decimals).
C24_OutlierCountAndShare ==
    HasReport =>
        \A i \in DOMAIN ReportColumns :
            LET a == ReportColumns[i]
            IN  a.is_numeric =>
                  /\ a.outliers_count = Cardinality(C10_Rule(df.columns[i]))
                  /\ a.total = Len(df.columns[i].cells)
                  /\ IsRounded(a.outliers_pct, 10000 * a.outliers_count, a.total)
                  /\ a.outliers_pct >= 0 /\ a.outliers_pct <= 10000

\* a numeric column with nulls and with outliers
C24_Witness ==
    \E i \in DOMAIN ReportColumns :
        /\ ReportColumns[i].is_numeric
        /\ ReportColumns[i].null_count > 0
        /\ ReportColumns[i].outliers_count > 0
        /\ ReportColumns[i].outliers_pct * ReportColumns[i].total
              = 10000 * ReportColumns[i].outliers_count

\* C26: in every profile duplicate_count >= null_count (duplicate_count is
\* total minus the number of distinct non-null values); a column with more
\* than half of its rows null has a high_null_percentage and a
\* high_duplicates issue and its score carries the 20 points of the
\* duplicate penalty; and columns_with_duplicates >= columns_with_nulls.
C26_NullsAreDuplicates ==
    HasReport =>
        /\ \A i \in DOMAIN ReportColumns :
              LET a == ReportColumns[i]
              IN  /\ a.duplicate_count = a.total - a.unique_count
                  /\ a.duplicate_count >= a.null_count
                  /\ 2 * a.null_count > a.total =>
                        /\ Cardinality(IssuesOf("high_null_percentage", a.name)) = 1
                        /\ Cardinality(IssuesOf("high_duplicates", a.name)) = 1
                        /\ \E o \in {0, 10000} :
                              IsRounded(a.quality_score,
                                        100000 - 5 * a.null_pct[1] - 20000 - o, 100)
        /\ quality_report.summary.columns_with_duplicates
              >= quality_report.summary.columns_with_nulls

\* a column of distinct values of which more than half are null
C26_Witness ==
    /\ HasReport
    /\ \E i \in DOMAIN ReportColumns :
          /\ 2 * ReportColumns[i].null_count > ReportColumns[i].total
          /\ ReportColumns[i].unique_count
                = ReportColumns[i].total - ReportColumns[i].null_count
          /\ ReportColumns[i].unique_count > 0
          /\ ReportColumns[i].duplicate_count = ReportColumns[i].null_count
          /\ IssuesOf("high_duplicates", ReportColumns[i].name) # {}
    /\ quality_report.summary.columns_with_nulls = 1
    /\ quality_report.summary.columns_with_duplicates = 1

\* C27 as stated: a column with rows scores between 20 and 100, and no
\* column and no report scores below 20.
C27_NoScoreBelowTwenty ==
    HasReport =>
        /\ \A i \in DOMAIN ReportColumns :
              /\ ReportColumns[i].quality_score >= 200
              /\ ReportColumns[i].quality_score <= 1000
        /\ quality_report.overall_quality_score >= 200

\* C27: a column with rows scores between 20 and 100 and the value that is
\* clamped is not negative; a column without rows scores 0; so a report on a
\* table with rows scores at least 20, and a report on a table without rows
\* scores 0.
C27_ScoreAtLeastTwentyWithRows ==
    HasReport =>
        /\ \A i \in DOMAIN ReportColumns :
              LET a == ReportColumns[i]
              IN  /\ a.total > 0 =>
                        /\ a.quality_score >= 200 /\ a.quality_score <= 1000
                        /\ C2_Penalised(a) >= 20000
                  /\ a.total = 0 => a.quality_score = 0 /\ a.null_pct = NaN
        /\ quality_report.total_rows > 0 =>
              quality_report.overall_quality_score >= 200
        /\ quality_report.total_rows = 0 =>
              quality_report.overall_quality_score = 0

\* the lowest score of the model on a table with rows: an all-null column
C27_Witness ==
    /\ HasReport /\ quality_report.total_rows > 0
    /\ \E i \in DOMAIN ReportColumns :
          /\ ReportColumns[i].null_count = ReportColumns[i].total
          /\ ReportColumns[i].quality_score = 300
    /\ quality_report.overall_quality_score < 500

\* the penalties a stored score shows: the score is, rounded, 100 minus the
\* null penalty minus 20 (duplicates) or not minus 10 (outliers) or not
C28_ScoreShows(a, duplicates, outliers) ==
    /\ a.total > 0
    /\ IsRounded(a.quality_score,
                 100000 - 5 * a.null_pct[1]
                 - (IF duplicates THEN 20000 ELSE 0)
                 - (IF outliers THEN 10000 ELSE 0), 100)
C28_HasIssue(a, type) == IssuesOf(type, a.name) # {}
C28_Consistent(a) ==
    /\ C28_HasIssue(a, "high_duplicates")
          <=> \E o \in BOOLEAN : C28_ScoreShows(a, TRUE, o)
    /\ C28_HasIssue(a, "high_outliers")
          => \E d \in BOOLEAN : C28_ScoreShows(a, d, TRUE)
    /\ C28_HasIssue(a, "high_null_percentage")
          => IsNum(a.null_pct) /\ 5 * a.null_pct[1] > 10000

\* C28 as stated: the issues of a column agree with the penalties in its
\* score, and a column with an issue scores below 90.
C28_IssueBelowNinety ==
    \A i \in DOMAIN ReportColumns :
        /\ C28_Consistent(ReportColumns[i])
        /\ (\E k \in DOMAIN ReportIssues : ReportIssues[k].column = ReportColumns[i].name)
              => ReportColumns[i].quality_score < 900

\* C28: a high_duplicates issue iff the score carries the 20 points, a
\* high_outliers issue only if it carries the 10 points, a
\* high_null_percentage issue only if the null penalty is above 10; a column
\* with an issue scores at most 90, and below 90 unless high_outliers is its
\* only issue.
C28_IssueAtMostNinety ==
    \A i \in DOMAIN ReportColumns :
        LET a == ReportColumns[i]
        IN  /\ C28_Consistent(a)
            /\ (\E k \in DOMAIN ReportIssues : ReportIssues[k].column = a.name)
                  => a.quality_score <= 900
            /\ C28_HasIssue(a, "high_duplicates") => a.quality_score <= 800
            /\ (a.quality_score = 900
                /\ \E k \in DOMAIN ReportIssues : ReportIssues[k].column = a.name)
                  => /\ C28_HasIssue(a, "high_outliers")
                     /\ ~C28_HasIssue(a, "high_duplicates")

\* a column whose only issue is high_outliers and whose score is 90.0
C28_Witness ==
    \E i \in DOMAIN ReportColumns :
        /\ C28_HasIssue(ReportColumns[i], "high_outliers")
        /\ ~C28_HasIssue(ReportColumns[i], "high_duplicates")
        /\ ~C28_HasIssue(ReportColumns[i], "high_null_percentage")
        /\ ReportColumns[i].quality_score = 900

\* the outlier penalty without the issue: outliers_pct in (10, 15]
C28_PenaltyWithoutIssue ==
    \E i \in DOMAIN ReportColumns :
        /\ ReportColumns[i].is_numeric
        /\ ReportColumns[i].outliers_pct > 1000
        /\ ReportColumns[i].outliers_pct <= 1500
        /\ ~C28_HasIssue(ReportColumns[i], "high_outliers")
        /\ \E d \in BOOLEAN : C28_ScoreShows(ReportColumns[i], d, TRUE)

\* C29: every issue of a report names a column that has a profile in the
\* report, a column has at most one issue of each of the three types, and
\* total_issues <= 3 * total_columns.
C29_IssueTypes == {"high_null_percentage", "high_duplicates", "high_outliers"}
C29_IssuesBounded ==
    HasReport =>
        /\ \A k \in DOMAIN ReportIssues :
              /\ ReportIssues[k].type \in C29_IssueTypes
              /\ Cardinality({i \in DOMAIN ReportColumns :
                                ReportColumns[i].name = ReportIssues[k].column}) = 1
        /\ \A i \in DOMAIN ReportColumns :
              \A type \in C29_IssueTypes :
                  Cardinality(IssuesOf(type, ReportColumns[i].name)) <= 1
        /\ quality_report.summary.total_issues <= 3 * quality_report.total_columns
        /\ Len(ReportIssues) <= 3 * Len(ReportColumns)

\* a report in which every column has the three issues
C29_Witness ==
    /\ HasReport /\ Len(ReportColumns) = 2
    /\ quality_report.summary.total_issues = 6
    /\ \A i \in DOMAIN ReportColumns :
          \A type \in C29_IssueTypes :
              Cardinality(IssuesOf(type, ReportColumns[i].name)) = 1

\* tables that agree with a loaded table on its column c and differ in the
\* rest: c alone, and c after or before one more column of the same length
\* (all null, or all the same value) of each type
C21_OtherColumns(rows) ==
    UNION {{[name |-> "c4", dtype |-> d, cells |-> [r \in 1..rows |-> cell]] :
                cell \in {Null, Val(1)}} : d \in Dtypes}
C21_TablesWith(c) ==
    {[rows |-> Len(c.cells), columns |-> <<c>>]}
    \cup {[rows |-> Len(c.cells), columns |-> <<c, o>>] : o \in C21_OtherColumns(Len(c.cells))}
    \cup {[rows |-> Len(c.cells), columns |-> <<o, c>>] : o \in C21_OtherColumns(Len(c.cells))}
C21_ProfilesOf(result, name) ==
    SelectSeq(result.columns, LAMBDA a : a.name = name)
C21_IssuesFor(result, name) ==
    SelectSeq(result.issues, LAMBDA issue : issue.column = name)

\* C21: the profile of a column and the issues of that column depend on the
\* column alone: every table that has the column c of the reported table,
\* whatever its other columns, gets a report with the same profile and the
\* same issues for c.
C21_ColumnIndependence ==
    HasReport =>
        \A i \in DOMAIN df.columns :
            \A t \in C21_TablesWith(df.columns[i]) :
                \A other \in {BuildReport(t, file.name, clock, EmptyDict)} :
                    /\ ~Raised(other)
                    /\ C21_ProfilesOf(other, df.columns[i].name) = <<ReportColumns[i]>>
                    /\ C21_IssuesFor(other, df.columns[i].name)
                          = C21_IssuesFor(quality_report, df.columns[i].name)

\* what remains of it: the reports that exist agree on c
C21_IndependentWhenReported ==
    HasReport =>
        \A i \in DOMAIN df.columns :
            \A t \in C21_TablesWith(df.columns[i]) :
                \A other \in {BuildReport(t, file.name, clock, EmptyDict)} :
                    ~Raised(other) =>
                        /\ C21_ProfilesOf(other, df.columns[i].name) = <<ReportColumns[i]>>
                        /\ C21_IssuesFor(other, df.columns[i].name)
                              = C21_IssuesFor(quality_report, df.columns[i].name)

-----------------------------------------------------------------------------
(* Properties of the loader and of main *)

SupportedSuffix == Lower(Suffix(file.name)) \in {".csv", ".parquet", ".json"}

\* C25: the error for an unsupported suffix (ValueError "Unsupported
\* format") comes from load_data only: it occurs exactly for a file whose
\* suffix is none of .csv, .parquet, .json, generate_report ends with it only
\* when it had to call load_data itself and never once a table is loaded;
\* after it the table is unset, there is no report, and main has printed the
\* error, written no file and exited with status 1.
C25_UnsupportedOnlyFromLoader ==
    /\ load_error = "ValueError" => ~SupportedSuffix
    /\ (~SupportedSuffix /\ pc # "start")
          => pc = "exited" /\ load_error = "ValueError"
    /\ outcome = "ValueError" => load_error = "ValueError"
    /\ df # None => SupportedSuffix /\ outcome # "ValueError"
    /\ load_error = "ValueError" =>
          /\ df = None
          /\ quality_report = EmptyDict /\ report = EmptyDict
          /\ pc = "exited" =>
                /\ exit_code = <<1>>
                /\ written = NoFiles
                /\ console = <<"Error">>

\* main was asked for both output files, was given a .txt file and has
\* exited with status 1
C25_Witness ==
    /\ Suffix(file.name) = ".txt"
    /\ args.output # <<>> /\ args.json_output # <<>>
    /\ pc = "exited" /\ exit_code = <<1>>
    /\ load_error = "ValueError"
    /\ df = None

\* what main prints when nothing fails
C30_Expected ==
    <<"Data Quality Report">>
    \o (IF args.output = <<>> THEN <<>> ELSE <<"HTML report generated">>)
    \o (IF args.json_output = <<>> THEN <<>> ELSE <<"JSON report exported">>)
C30_Requested ==
    {args.output[i] : i \in DOMAIN args.output}
    \cup {args.json_output[i] : i \in DOMAIN args.json_output}
C30_Failed == load_error # "none" \/ outcome \notin {"none", "returned"}
C30_Steps ==
    {<<"start", "loaded">>, <<"loaded", "generated">>, <<"generated", "rendered">>,
     <<"rendered", "html_done">>, <<"html_done", "exited">>,
     <<"start", "exited">>, <<"loaded", "exited">>}

\* the state of a run of main at each step
C30_StepByStep ==
    /\ pc \in {"loaded", "generated", "rendered", "html_done"} =>
          df # None /\ df = file.table /\ exit_code = <<>>
    /\ pc \in {"start", "loaded"} =>
          quality_report = EmptyDict /\ console = <<>> /\ written = NoFiles
    /\ pc \in {"generated", "rendered", "html_done"} \/ exit_code = <<0>> =>
          /\ report # EmptyDict
          /\ report = quality_report
          /\ prev_report = EmptyDict
    /\ pc = "generated" => console = <<>> /\ written = NoFiles
    /\ pc = "rendered" => console = <<"Data Quality Report">> /\ written = NoFiles
    /\ pc = "html_done" =>
          /\ console = <<"Data Quality Report">>
                       \o (IF args.output = <<>> THEN <<>>
                           ELSE <<"HTML report generated">>)
          /\ DOMAIN written = {args.output[i] : i \in DOMAIN args.output}
    /\ \A path \in DOMAIN written :
          /\ path \in C30_Requested
          /\ path = "report.html" => written[path] = RenderHtml(report)
          /\ path = "report.json" => written[path] = JsonDumps(report)
    /\ C30_Failed <=> exit_code = <<1>>
    /\ exit_code = <<1>> =>
          /\ pc = "exited" /\ written = NoFiles /\ report = EmptyDict
          /\ console \in {<<"Error">>, <<"Error: File not found">>}
    /\ exit_code = <<0>> =>
          /\ pc = "exited"
          /\ console = C30_Expected
          /\ DOMAIN written = C30_Requested
    /\ pc = "exited" <=> exit_code # <<>>

\* C30: a run of main goes load, generate report, console render, HTML if
\* asked for, JSON if asked for, in this order; the report is generated once
\* and both files are made from that one report (generate_html_report does
\* not build another, generate_report does not load the table again); when
\* load_data or generate_report fails no file is written and the exit
\* status is 1.
C30_MainOrder ==
    /\ []C30_StepByStep
    /\ [][/\ pc' # pc => <<pc, pc'>> \in C30_Steps
          /\ df # None => df' = df
          /\ report # EmptyDict => report' = report /\ quality_report' = report
          /\ \A path \in DOMAIN written :
                path \in DOMAIN written' /\ written'[path] = written[path]]_vars

\* both files were asked for and written, a second after the report was
\* generated
C30_Witness ==
    /\ exit_code = <<0>>
    /\ DOMAIN written = {"report.html", "report.json"}
    /\ console = <<"Data Quality Report", "HTML report generated", "JSON report exported">>
    /\ report.generated_at < clock
    /\ written["report.html"].of = written["report.json"].of

====
